---- MODULE Spec2Model ----
(***************************************************************************)
(* A model of analyze_packages.py: the version-expression parser, the      *)
(* reconciliation of the CSV feed (Feed A) and the JSON feed (Feed B) into *)
(* packages_lookup, the three-tier classifier, and the run of main() over  *)
(* the DependencyTrack inventory server with its cache and its saves.      *)
(*                                                                         *)
(* Python strings that the code inspects character by character (version   *)
(* expressions, versions, package names) are sequences of one-character    *)
(* strings: "= 1.0" is <<"=", " ", "1", ".", "0">>.  Identifiers the code  *)
(* only compares for equality (project uuids and names) are TLA+ strings.  *)
(***************************************************************************)
EXTENDS Integers, Sequences, FiniteSets, TLC

\* ------------------------------------------------------------------------
\* Bounds of the model
\* ------------------------------------------------------------------------

\* Longest version string enumerated for the parser's inputs.
MaxVerLen == 2

\* Most terms of a version expression "= A || = B ...".
MaxTerms == 2

\* Longest arbitrary (possibly malformed) version expression.
MaxRawLen == 3

\* ------------------------------------------------------------------------
\* Python strings
\* ------------------------------------------------------------------------

\* Python's None, kept apart from every string (the empty string is <<>>).
None == <<"None">>

\* Unicode code point of a character: Python orders strings by code point.
Code(c) ==
    CASE c = " " -> 32
      [] c = "." -> 46
      [] c = "0" -> 48
      [] c = "1" -> 49
      [] c = "2" -> 50
      [] c = "9" -> 57
      [] c = "=" -> 61
      [] c = "V" -> 86
      [] c = "a" -> 97
      [] c = "b" -> 98
      [] c = "v" -> 118
      [] c = "z" -> 122
      [] c = "|" -> 124

MinOf(S) == CHOOSE x \in S : \A y \in S : x <= y

Range(s) == {s[i] : i \in 1..Len(s)}

\* s < t for Python strings: the first differing character decides, and a
\* proper prefix is smaller.
StrLess(s, t) ==
    \E i \in 1..(Len(s) + 1) :
        /\ i <= Len(t)
        /\ \A j \in 1..(i - 1) : s[j] = t[j]
        /\ \/ i = Len(s) + 1
           \/ Code(s[i]) < Code(t[i])

\* sorted(list(S)) for a set of strings.
RECURSIVE SortedList(_)
SortedList(S) ==
    IF S = {} THEN <<>>
    ELSE LET m == CHOOSE x \in S : \A y \in S \ {x} : StrLess(x, y)
         IN  <<m>> \o SortedList(S \ {m})

StartsWith(s, p) == Len(s) >= Len(p) /\ SubSeq(s, 1, Len(p)) = p

\* s.lstrip(chars) / s.rstrip(chars)
RECURSIVE LStrip(_, _)
LStrip(s, chars) ==
    IF s # <<>> /\ s[1] \in chars THEN LStrip(Tail(s), chars) ELSE s

RECURSIVE RStrip(_, _)
RStrip(s, chars) ==
    IF s # <<>> /\ s[Len(s)] \in chars
    THEN RStrip(SubSeq(s, 1, Len(s) - 1), chars)
    ELSE s

Whitespace == {" "}

\* s.strip()
Strip(s) == RStrip(LStrip(s, Whitespace), Whitespace)

\* s.split(sep) for a non-empty separator: left to right, non-overlapping;
\* always at least one part.
RECURSIVE Split(_, _)
Split(s, sep) ==
    LET n    == Len(sep)
        hits == {i \in 1..(Len(s) - n + 1) : SubSeq(s, i, i + n - 1) = sep}
    IN  IF hits = {} THEN <<s>>
        ELSE LET i == MinOf(hits)
             IN  <<SubSeq(s, 1, i - 1)>> \o Split(SubSeq(s, i + n, Len(s)), sep)

\* sep.join(parts)
RECURSIVE Join(_, _)
Join(sep, parts) ==
    IF parts = <<>> THEN <<>>
    ELSE IF Len(parts) = 1 THEN parts[1]
    ELSE parts[1] \o sep \o Join(sep, Tail(parts))

\* Python truthiness of a string-or-None value.
Truthy(s) == s # None /\ s # <<>>

\* ------------------------------------------------------------------------
\* parse_version
\* ------------------------------------------------------------------------

\* first_version.split(".")[0] of the first version, None for an empty list
MajorOfFirst(versions) ==
    IF versions # <<>> THEN Split(versions[1], <<".">>)[1] ELSE None

\* A parser that drops the leading "=" but not the blank after it.
CleanTermKeepsBlank(v) ==
    LET w == Strip(v)
    IN  IF StartsWith(w, <<"=">>) THEN Tail(w) ELSE w

\* One term of the "||" split: strip, drop one leading "=", strip again.
CleanTerm(v) ==
    LET w == Strip(v)
    IN  IF StartsWith(w, <<"=">>) THEN Strip(Tail(w)) ELSE w

parse_version(version_str) ==
    LET terms    == Split(version_str, <<"|", "|">>)
        versions == [k \in 1..Len(terms) |-> CleanTerm(terms[k])]
    IN  [major_version |-> MajorOfFirst(versions), versions |-> versions]

\* ------------------------------------------------------------------------
\* The feeds and packages_lookup
\* ------------------------------------------------------------------------

\* A Feed A row is [Package |-> string, Version |-> string]; a missing column
\* reads as the empty string (row.get(.., '')).
\* A Feed B item is [name |-> string, versions |-> list of strings]; Feed B is
\* the list of its items in the order of the JSON object, names distinct.

\* d[k] = v on a dict modelled as a function
Put(d, k, v) == (k :> v) @@ d

EmptyDict == [x \in {} |-> {}]

AllVersionsText == <<"A", "L", "L", " ", "V", "E", "R", "S", "I", "O", "N", "S">>

OrSep == <<" ", "|", "|", " ">>

\* ' || '.join([f"= {v}" for v in versions])
EqJoin(versions) ==
    Join(OrSep, [k \in 1..Len(versions) |-> <<"=", " ">> \o versions[k]])

\* The entry main() stores for a Feed A row.
CsvEntry(version_str) ==
    LET p == parse_version(version_str)
    IN  [version_str            |-> version_str,
         malicious_versions     |-> p.versions,
         major_version          |-> p.major_version,
         all_versions_malicious |-> FALSE,
         source                 |-> "CSV"]

\* A merge that concatenates the two version lists instead of sorting their
\* union.
MergedEntryUnsorted(existing, versions) ==
    LET all_versions == existing.malicious_versions \o versions
        all_versions_malicious == (Len(versions) = 0)
    IN  [version_str            |-> IF all_versions_malicious
                                    THEN existing.version_str \o OrSep
                                             \o AllVersionsText
                                    ELSE EqJoin(all_versions),
         malicious_versions     |-> all_versions,
         major_version          |-> MajorOfFirst(all_versions),
         all_versions_malicious |-> all_versions_malicious,
         source                 |-> "CSV+JSON"]

\* The entry main() stores for a Feed B package already present from Feed A.
MergedEntry(existing, versions) ==
    LET all_versions == SortedList(Range(existing.malicious_versions)
                                       \cup Range(versions))
        all_versions_malicious == (Len(versions) = 0)
    IN  [version_str            |-> IF all_versions_malicious
                                    THEN existing.version_str \o OrSep
                                             \o AllVersionsText
                                    ELSE EqJoin(all_versions),
         malicious_versions     |-> all_versions,
         major_version          |-> MajorOfFirst(all_versions),
         all_versions_malicious |-> all_versions_malicious,
         source                 |-> "CSV+JSON"]

\* A Feed B entry that never reads an empty list as "every version".
JsonEntryNeverAll(versions) ==
    [version_str            |-> IF versions # <<>> THEN EqJoin(versions)
                                ELSE AllVersionsText,
     malicious_versions     |-> versions,
     major_version          |-> MajorOfFirst(versions),
     all_versions_malicious |-> FALSE,
     source                 |-> "JSON"]

\* The entry main() stores for a Feed B package that Feed A does not list.
JsonEntry(versions) ==
    [version_str            |-> IF versions # <<>> THEN EqJoin(versions)
                                ELSE AllVersionsText,
     malicious_versions     |-> versions,
     major_version          |-> MajorOfFirst(versions),
     all_versions_malicious |-> (Len(versions) = 0),
     source                 |-> "JSON"]

\* One iteration of the loop over the Feed A rows.
CsvStep(lookup, row) ==
    LET package_name == Strip(row.Package)
        version_str  == Strip(row.Version)
    IN  IF package_name = <<>> THEN lookup
        ELSE Put(lookup, package_name, CsvEntry(version_str))

\* One iteration of the loop over the Feed B items.
JsonStep(lookup, item) ==
    IF item.name = <<>> THEN lookup
    ELSE IF item.name \in DOMAIN lookup
    THEN Put(lookup, item.name, MergedEntry(lookup[item.name], item.versions))
    ELSE Put(lookup, item.name, JsonEntry(item.versions))

RECURSIVE FoldCsv(_, _)
FoldCsv(lookup, rows) ==
    IF rows = <<>> THEN lookup
    ELSE FoldCsv(CsvStep(lookup, Head(rows)), Tail(rows))

RECURSIVE FoldJson(_, _)
FoldJson(lookup, items) ==
    IF items = <<>> THEN lookup
    ELSE FoldJson(JsonStep(lookup, Head(items)), Tail(items))

\* packages_lookup as main() has built it once both loops are over.
BuildLookup(rows, items) == FoldJson(FoldCsv(EmptyDict, rows), items)

\* ------------------------------------------------------------------------
\* match_component_against_packages
\* ------------------------------------------------------------------------

NoMatches == [any_version |-> <<>>, exact_version |-> <<>>, major_version |-> <<>>]

\* component_version.lstrip('vV') if component_version else ""
CleanVersion(component_version) == LStrip(component_version, {"v", "V"})

\* An all-versions branch that reports the major-version tier even for a
\* component without version.
AllVersionsMatchesAlwaysMajor(component_name, component_version) ==
    [any_version   |-> <<component_name>>,
     exact_version |-> <<component_name>>,
     major_version |-> <<component_name>>]

\* The branch "if all_versions_malicious": the name is appended to the
\* any-version and exact-version lists, and to the major-version list when
\* the component has a version.
AllVersionsMatches(component_name, component_version) ==
    [any_version   |-> <<component_name>>,
     exact_version |-> <<component_name>>,
     major_version |-> IF component_version # <<>>
                       THEN <<component_name>> ELSE <<>>]

\* An exact test that looks up the stripped version only.
ExactVersionMatchesCleanOnly(component_version, malicious_versions) ==
    CleanVersion(component_version) \in Range(malicious_versions)

\* "comp_version_clean in malicious_versions or component_version in
\* malicious_versions"
ExactVersionMatches(component_version, malicious_versions) ==
    \/ CleanVersion(component_version) \in Range(malicious_versions)
    \/ component_version \in Range(malicious_versions)

\* A major test on the component version as reported, v prefix included.
MajorVersionMatchesRaw(component_version, major_version) ==
    /\ Truthy(major_version)
    /\ component_version # <<>>
    /\ Split(component_version, <<".">>)[1] = major_version

\* "if major_version and comp_version_clean:" and the comparison of
\* version_parts[0] with major_version
MajorVersionMatches(component_version, major_version) ==
    /\ Truthy(major_version)
    /\ CleanVersion(component_version) # <<>>
    /\ Split(CleanVersion(component_version), <<".">>)[1] = major_version

\* An else branch that forgets the any-version tier.
ListedVersionsMatchesNoAny(component_name, component_version, package_info) ==
    [any_version   |-> <<>>,
     exact_version |->
         IF ExactVersionMatches(component_version,
                                package_info.malicious_versions)
         THEN <<component_name>> ELSE <<>>,
     major_version |->
         IF MajorVersionMatches(component_version,
                                package_info.major_version)
         THEN <<component_name>> ELSE <<>>]

\* The else branch: the name is appended to the any-version list, and to the
\* exact-version and major-version lists as the two tests decide.
ListedVersionsMatches(component_name, component_version, package_info) ==
    [any_version   |-> <<component_name>>,
     exact_version |->
         IF ExactVersionMatches(component_version,
                                package_info.malicious_versions)
         THEN <<component_name>> ELSE <<>>,
     major_version |->
         IF MajorVersionMatches(component_version,
                                package_info.major_version)
         THEN <<component_name>> ELSE <<>>]

match_component_against_packages(component_name, component_version, lookup) ==
    IF component_name \notin DOMAIN lookup THEN NoMatches
    ELSE IF lookup[component_name].all_versions_malicious
    THEN AllVersionsMatches(component_name, component_version)
    ELSE ListedVersionsMatches(component_name, component_version,
                               lookup[component_name])

\* ------------------------------------------------------------------------
\* package_stats and the statistics document
\* ------------------------------------------------------------------------

EmptyPackageStats ==
    [projects_any_version   |-> EmptyDict,
     projects_exact_version |-> EmptyDict,
     projects_major_version |-> EmptyDict]

\* package_stats = {pkg: {...} for pkg in packages_lookup.keys()}
InitialStats(lookup) == [pkg \in DOMAIN lookup |-> EmptyPackageStats]

\* An update loop that keeps the first record of a project instead of the
\* last.
RECURSIVE RecordTierFirstWins(_, _, _, _, _)
RecordTierFirstWins(stats, names, tier, project_uuid, info) ==
    IF names = <<>> THEN stats
    ELSE IF project_uuid \in DOMAIN stats[Head(names)][tier]
    THEN RecordTierFirstWins(stats, Tail(names), tier, project_uuid, info)
    ELSE RecordTierFirstWins(
             [stats EXCEPT ![Head(names)][tier] = Put(@, project_uuid, info)],
             Tail(names), tier, project_uuid, info)

\* One of the three update loops of main() for one classified component:
\* "for package_name in matches[..]: package_stats[package_name][tier][uuid] = info"
RECURSIVE RecordTier(_, _, _, _, _)
RecordTier(stats, names, tier, project_uuid, info) ==
    IF names = <<>> THEN stats
    ELSE RecordTier(
             [stats EXCEPT ![Head(names)][tier] = Put(@, project_uuid, info)],
             Tail(names), tier, project_uuid, info)

\* The three update loops of main() for one classified component.
RecordMatches(stats, matches, project_uuid, project_name, comp_version) ==
    LET info  == [name |-> project_name, version |-> comp_version]
        any   == RecordTier(stats, matches.any_version,
                            "projects_any_version", project_uuid, info)
        exact == RecordTier(any, matches.exact_version,
                            "projects_exact_version", project_uuid, info)
    IN  RecordTier(exact, matches.major_version,
                   "projects_major_version", project_uuid, info)

\* A total that is taken from one package only.
NamesOfOnePackage(stats, listed, tier) ==
    IF listed = {} THEN EmptyDict
    ELSE LET pkg == CHOOSE q \in listed : TRUE
         IN  [u \in DOMAIN stats[pkg][tier] |-> stats[pkg][tier][u].name]

\* The uuid -> name dict that dict.update() accumulates over the packages
\* whose any-version dict is not empty (uuids are keys; the name kept for a
\* uuid is that of the project, the same in every package).
NamesOf(stats, listed, tier) ==
    LET uuids == UNION {DOMAIN stats[pkg][tier] : pkg \in listed}
    IN  [u \in uuids |->
            LET pkg == CHOOSE q \in listed : u \in DOMAIN stats[q][tier]
            IN  stats[pkg][tier][u].name]

build_stats_from_package_stats(stats, lookup) ==
    LET listed == {pkg \in DOMAIN stats : DOMAIN stats[pkg].projects_any_version # {}}
    IN  [total_packages               |-> Cardinality(DOMAIN lookup),
         packages_with_projects       |-> Cardinality(listed),
         total_projects_any_version   |-> NamesOf(stats, listed, "projects_any_version"),
         total_projects_exact_version |-> NamesOf(stats, listed, "projects_exact_version"),
         total_projects_major_version |-> NamesOf(stats, listed, "projects_major_version"),
         package_details              |->
             [pkg \in listed |->
                 [package                |-> pkg,
                  version                |-> lookup[pkg].version_str,
                  major_version          |-> lookup[pkg].major_version,
                  malicious_versions     |-> lookup[pkg].malicious_versions,
                  all_versions_malicious |-> lookup[pkg].all_versions_malicious,
                  source                 |-> lookup[pkg].source,
                  projects_any_version   |->
                      [count    |-> Cardinality(DOMAIN stats[pkg].projects_any_version),
                       projects |-> stats[pkg].projects_any_version],
                  projects_exact_version |->
                      [count    |-> Cardinality(DOMAIN stats[pkg].projects_exact_version),
                       projects |-> stats[pkg].projects_exact_version],
                  projects_major_version |->
                      [count    |-> Cardinality(DOMAIN stats[pkg].projects_major_version),
                       projects |-> stats[pkg].projects_major_version]]]]

\* The two documents save_results() writes.
save_results(stats, current_idx) ==
    [analysis_results |->
         [summary |->
              [total_packages         |-> stats.total_packages,
               projects_processed     |-> current_idx,
               packages_with_projects |-> stats.packages_with_projects,
               projects_any_version   |->
                   Cardinality(DOMAIN stats.total_projects_any_version),
               projects_exact_version |->
                   Cardinality(DOMAIN stats.total_projects_exact_version),
               projects_major_version |->
                   Cardinality(DOMAIN stats.total_projects_major_version)],
          package_details |-> stats.package_details],
     projects_list |->
         [projects_any_version   |-> stats.total_projects_any_version,
          projects_exact_version |-> stats.total_projects_exact_version,
          projects_major_version |-> stats.total_projects_major_version]]

\* ------------------------------------------------------------------------
\* The world outside: feeds, inventory server, cache file
\* ------------------------------------------------------------------------

\* page_size of get_all_projects and of get_project_components
page_size == 100

\* The cadence of the incremental save: idx % 10 == 0
save_every == 10

PkgA == <<"a">>
PkgB == <<"b">>
PkgZ == <<"z">>

V1   == <<"1">>
V10  == <<"1", ".", "0">>
V20  == <<"2", ".", "0">>
Vv10 == <<"v", "1", ".", "0">>

Row(package, version) == [Package |-> package, Version |-> version]
Item(name, versions)  == [name |-> name, versions |-> versions]
Comp(name, version)   == [name |-> name, version |-> version]
Proj(uuid, name)      == [uuid |-> uuid, name |-> name]

\* Feed A as download_csv() may return it in a whole run.
RunCsvFeeds ==
    { <<Row(<<" ", "a">>, <<"=", " ">> \o V10)>>,
      <<Row(<<>>, V10), Row(PkgA, EqJoin(<<V20, V10>>))>> }

\* Feed B as download_json() may return it in a whole run.
RunJsonFeeds ==
    { <<Item(PkgA, <<>>)>>,
      <<Item(PkgB, <<Vv10>>), Item(PkgA, <<V10>>)>> }

\* Components the inventory server reports in a whole run.  A component with
\* no name is skipped by main(); PkgZ is in no feed.
FillerComponent == Comp(PkgZ, V10)

FullComponentPage == [k \in 1..page_size |-> FillerComponent]

\* Projects the inventory server lists.  A project without uuid ("" stands
\* for a missing, null or empty uuid) is skipped by main().
FillerProject == Proj("", "filler")

FullProjectPage == [k \in 1..page_size |-> FillerProject]

\* The X-Total-Count header: absent (or empty), not an integer, or an integer.
NoHeader  == [kind |-> "absent", value |-> 0]
BadHeader == [kind |-> "invalid", value |-> 0]
Header(n) == [kind |-> "int", value |-> n]

\* A response of requests.get(): an HTTP response, or an exception that
\* carries no response (ConnectionError, Timeout).
NoResponse(kind) ==
    [kind |-> kind, status |-> 0, header |-> NoHeader, json |-> FALSE,
     shape |-> "other", items |-> <<>>]

HttpError(status) ==
    [kind |-> "http", status |-> status, header |-> NoHeader, json |-> FALSE,
     shape |-> "other", items |-> <<>>]

\* A 200 whose body is JSON: a list, a dict with 'items', another dict, or
\* any other JSON value.
Ok(header, shape, items) ==
    [kind |-> "http", status |-> 200, header |-> header, json |-> TRUE,
     shape |-> shape, items |-> items]

\* A 200 whose body is not JSON.
NonJson(header) ==
    [kind |-> "http", status |-> 200, header |-> header, json |-> FALSE,
     shape |-> "other", items |-> <<>>]

AuthStatuses == {401, 403, 405}

FailureResponses ==
    {NoResponse("connection_error"), NoResponse("timeout")}
        \cup {HttpError(st) : st \in AuthStatuses \cup {404, 500}}
        \cup {NonJson(NoHeader)}

\* What the server may answer to a request of get_project_components.
ComponentResponses ==
    FailureResponses
        \cup {Ok(NoHeader, "list", <<>>),
              Ok(NoHeader, "list", <<Comp(PkgA, V10)>>),
              Ok(NoHeader, "list",
                 <<Comp(PkgB, V20), Comp(<<>>, V10), Comp(PkgA, Vv10)>>),
              Ok(NoHeader, "list", FullComponentPage),
              Ok(Header(150), "list", <<Comp(PkgB, Vv10)>>),
              Ok(Header(0), "list", FullComponentPage),
              Ok(BadHeader, "items", <<Comp(PkgA, V20)>>),
              Ok(Header(1), "dict", <<Comp(PkgA, V1)>>)}

\* What the server may answer to a request of get_all_projects.
ProjectResponses ==
    FailureResponses
        \cup {Ok(NoHeader, "list", <<>>),
              Ok(NoHeader, "list", <<Proj("u1", "p1")>>),
              Ok(NoHeader, "list",
                 <<Proj("u1", "p1"), Proj("", "p0"), Proj("u2", "p2")>>),
              Ok(NoHeader, "list", FullProjectPage),
              Ok(Header(150), "list", <<Proj("", "p0")>>),
              Ok(Header(0), "list", FullProjectPage),
              Ok(BadHeader, "items", <<Proj("u2", "p2")>>),
              Ok(Header(1), "dict", <<>>)}

\* cache.json as the run may find it.
RunCacheFiles ==
    { EmptyDict, [u \in {"u1"} |-> <<Comp(PkgA, V20)>>] }

\* ------------------------------------------------------------------------
\* Pagination: get_all_projects and get_project_components, one response
\* at a time
\* ------------------------------------------------------------------------

\* int(total_count_header), None when the header is absent, empty or no
\* integer: <<>> is None, <<n>> the count.
TotalCount(header) == IF header.kind = "int" THEN <<header.value>> ELSE <<>>

\* A page count that rounds down.
TotalPagesFloor(total_count) == total_count \div page_size

\* (total_count + page_size - 1) // page_size
TotalPages(total_count) == (total_count + page_size - 1) \div page_size

\* What one response leads to: "exit" (sys.exit(1)), "crash" (an exception
\* nothing catches), "return" (the function returns result; store tells
\* whether the result is put in the cache when caching is on), or the next
\* request, "counted" (the for loop over range(2, total_pages + 1)) or
\* "uncounted" (the while loop).
Outcome(to, result, store, all, number, pages) ==
    [to |-> to, result |-> result, store |-> store, acc |-> all,
     page_number |-> number, total_pages |-> pages]

Returns(result, store) == Outcome("return", result, store, <<>>, 1, 0)

Exits == Outcome("exit", <<>>, FALSE, <<>>, 1, 0)

Crashes == Outcome("crash", <<>>, FALSE, <<>>, 1, 0)

\* A check that takes 405 for a recoverable status.
IsFatalStatusNo405(resp) == resp.status \in {401, 403}

\* check_and_exit_on_error
IsFatalStatus(resp) == resp.status \in {401, 403, 405}

\* response.raise_for_status() raises HTTPError for 4xx and 5xx
RaisesForStatus(resp) == resp.status >= 400 /\ resp.status < 600

\* The except clause of get_project_components for an exception that carries
\* no response: e.response is None, so e.response.status_code raises
\* AttributeError inside the handler, which nothing catches.
ComponentsNoResponse == Crashes

\* A handler that returns the empty list for a 404 without caching it.
ComponentsHttpErrorNoStore(resp) == Returns(<<>>, FALSE)

\* The except clause of get_project_components for the HTTPError of
\* raise_for_status (e.response is the response).
ComponentsHttpError(resp) ==
    IF resp.status = 404 THEN Returns(<<>>, TRUE) ELSE Returns(<<>>, FALSE)

\* The first request of get_project_components.
ComponentsFirstPage(resp) ==
    IF resp.kind # "http" THEN ComponentsNoResponse
    ELSE IF IsFatalStatus(resp) THEN Exits
    ELSE IF resp.status = 404 THEN Returns(<<>>, TRUE)
    ELSE IF RaisesForStatus(resp) THEN ComponentsHttpError(resp)
    ELSE IF ~resp.json THEN Returns(<<>>, FALSE)
    ELSE
    LET total_count    == TotalCount(resp.header)
        all_components == IF resp.shape \in {"list", "items", "dict"}
                          THEN resp.items ELSE <<>>
    IN  IF total_count # <<>>
        THEN IF TotalPages(total_count[1]) >= 2
             THEN Outcome("counted", <<>>, FALSE, all_components, 2,
                          TotalPages(total_count[1]))
             ELSE Returns(all_components, TRUE)
        ELSE IF Len(all_components) < page_size
             THEN Returns(all_components, TRUE)
             ELSE Outcome("uncounted", <<>>, FALSE, all_components, 2, 0)

\* One request of the for loop over range(2, total_pages + 1).
ComponentsCountedPage(resp, all_components, number, pages) ==
    IF resp.kind # "http" THEN ComponentsNoResponse
    ELSE IF IsFatalStatus(resp) THEN Exits
    ELSE IF RaisesForStatus(resp) THEN ComponentsHttpError(resp)
    ELSE
    LET extended == IF resp.json /\ resp.shape \in {"list", "items"}
                    THEN all_components \o resp.items ELSE all_components
    IN  IF number < pages
        THEN Outcome("counted", <<>>, FALSE, extended, number + 1, pages)
        ELSE Returns(extended, TRUE)

\* One request of the while loop.
ComponentsUncountedPage(resp, all_components, number) ==
    IF resp.kind # "http" THEN ComponentsNoResponse
    ELSE IF IsFatalStatus(resp) THEN Exits
    ELSE IF RaisesForStatus(resp) THEN ComponentsHttpError(resp)
    ELSE IF ~resp.json THEN Returns(all_components, TRUE)
    ELSE
    LET page_components == IF resp.shape \in {"list", "items"}
                           THEN resp.items ELSE <<>>
    IN  IF page_components = <<>> THEN Returns(all_components, TRUE)
        ELSE IF Len(page_components) < page_size
        THEN Returns(all_components \o page_components, TRUE)
        ELSE Outcome("uncounted", <<>>, FALSE,
                     all_components \o page_components, number + 1, 0)

\* The except clause of get_all_projects: any RequestException returns [].
ProjectsFailed == Returns(<<>>, FALSE)

\* The first request of get_all_projects.
ProjectsFirstPage(resp) ==
    IF resp.kind # "http" THEN ProjectsFailed
    ELSE IF IsFatalStatus(resp) THEN Exits
    ELSE IF RaisesForStatus(resp) THEN ProjectsFailed
    ELSE IF ~resp.json THEN Returns(<<>>, FALSE)
    ELSE
    LET total_count  == TotalCount(resp.header)
        all_projects == IF resp.shape \in {"list", "items"}
                        THEN resp.items ELSE <<>>
    IN  IF total_count # <<>>
        THEN IF TotalPages(total_count[1]) >= 2
             THEN Outcome("counted", <<>>, FALSE, all_projects, 2,
                          TotalPages(total_count[1]))
             ELSE Returns(all_projects, FALSE)
        ELSE IF Len(all_projects) < page_size
             THEN Returns(all_projects, FALSE)
             ELSE Outcome("uncounted", <<>>, FALSE, all_projects, 2, 0)

ProjectsCountedPage(resp, all_projects, number, pages) ==
    IF resp.kind # "http" THEN ProjectsFailed
    ELSE IF IsFatalStatus(resp) THEN Exits
    ELSE IF RaisesForStatus(resp) THEN ProjectsFailed
    ELSE
    LET extended == IF resp.json /\ resp.shape \in {"list", "items"}
                    THEN all_projects \o resp.items ELSE all_projects
    IN  IF number < pages
        THEN Outcome("counted", <<>>, FALSE, extended, number + 1, pages)
        ELSE Returns(extended, FALSE)

ProjectsUncountedPage(resp, all_projects, number) ==
    IF resp.kind # "http" THEN ProjectsFailed
    ELSE IF IsFatalStatus(resp) THEN Exits
    ELSE IF RaisesForStatus(resp) THEN ProjectsFailed
    ELSE IF ~resp.json THEN Returns(all_projects, FALSE)
    ELSE
    LET page_projects == IF resp.shape \in {"list", "items"}
                         THEN resp.items ELSE <<>>
    IN  IF page_projects = <<>> THEN Returns(all_projects, FALSE)
        ELSE IF Len(page_projects) < page_size
        THEN Returns(all_projects \o page_projects, FALSE)
        ELSE Outcome("uncounted", <<>>, FALSE,
                     all_projects \o page_projects, number + 1, 0)

\* ------------------------------------------------------------------------
\* The run of main()
\* ------------------------------------------------------------------------

\* Most pages one paginated listing is asked for; the listing's last allowed
\* page is never a full one, so that the while loop ends.
MaxPages == 3

VARIABLES
    pc,              \* where main() is
    exit_code,       \* <<>> while running, <<n>> once the process has ended
    ENABLE_CACHE,    \* the environment's flag, read at import
    cache_file,      \* cache.json on disk
    results_file,    \* <<>> or <<the two documents of save_results>>
    csv_status,      \* "pending", "ok" or "failed": download_csv
    json_status,     \* "pending", "ok" or "failed": download_json
    csv_packages,    \* the rows of Feed A
    json_packages,   \* the items of Feed B
    row_i,           \* next row of the loop over csv_packages
    item_i,          \* next item of the loop over json_packages
    packages_lookup,
    package_stats,
    cache,
    all_projects,
    idx,             \* enumerate(all_projects, 1)
    acc,             \* all_projects / all_components of the listing under way
    page_number,
    total_pages,
    components,      \* what get_project_components returned for project idx
    matches,         \* the classifier's last result
    response,        \* the last response received by the call of
                     \* get_all_projects / get_project_components under way
                     \* or last ended (NoResponseYet when it received none)
    requests         \* the requests that call has sent, in order

vars ==
    <<pc, exit_code, ENABLE_CACHE, cache_file, results_file, csv_status,
      json_status, csv_packages, json_packages, row_i, item_i, packages_lookup,
      package_stats, cache, all_projects, idx, acc, page_number, total_pages,
      components, matches, response, requests>>

feedVars == <<csv_status, json_status, csv_packages, json_packages>>

lookupVars == <<row_i, item_i, packages_lookup>>

listingVars == <<acc, page_number, total_pages>>

NoResponseYet == NoResponse("none")

\* The state in which main() starts.
Init ==
    /\ pc = "download_csv"
    /\ exit_code = <<>>
    /\ ENABLE_CACHE \in BOOLEAN
    /\ cache_file \in RunCacheFiles
    /\ results_file = <<>>
    /\ csv_status = "pending"
    /\ json_status = "pending"
    /\ csv_packages = <<>>
    /\ json_packages = <<>>
    /\ row_i = 1
    /\ item_i = 1
    /\ packages_lookup = EmptyDict
    /\ package_stats = EmptyDict
    /\ cache = EmptyDict
    /\ all_projects = <<>>
    /\ idx = 1
    /\ acc = <<>>
    /\ page_number = 1
    /\ total_pages = 0
    /\ components = <<>>
    /\ matches = NoMatches
    /\ response = NoResponseYet
    /\ requests = <<>>

\* A load that reads cache.json whatever the flag.
load_cacheIgnoresFlag == cache_file

\* load_cache()
load_cache == IF ENABLE_CACHE THEN cache_file ELSE EmptyDict

\* save_cache(cache): the new content of cache.json
save_cache(c) == IF ENABLE_CACHE THEN c ELSE cache_file

\* sys.exit(1)
Exit ==
    /\ pc' = "exited"
    /\ exit_code' = <<1>>

\* An exception nothing catches ends main() with a traceback.
Crash ==
    /\ pc' = "crashed"
    /\ exit_code' = <<1>>

\* csv_packages = download_csv(CSV_URL)
DownloadCsvOk ==
    /\ pc = "download_csv"
    /\ \E rows \in RunCsvFeeds : csv_packages' = rows
    /\ csv_status' = "ok"
    /\ pc' = "download_json"
    /\ UNCHANGED <<exit_code, ENABLE_CACHE, cache_file, results_file,
                   json_status, json_packages, lookupVars, package_stats,
                   cache, all_projects, idx, listingVars, components,
                   matches, response, requests>>

\* download_csv raises: the error is printed and the run exits.
DownloadCsvFail ==
    /\ pc = "download_csv"
    /\ csv_status' = "failed"
    /\ Exit
    /\ UNCHANGED <<ENABLE_CACHE, cache_file, results_file, json_status,
                   csv_packages, json_packages, lookupVars, package_stats,
                   cache, all_projects, idx, listingVars, components,
                   matches, response, requests>>

\* json_packages = download_json(JSON_URL)
DownloadJsonOk ==
    /\ pc = "download_json"
    /\ \E items \in RunJsonFeeds : json_packages' = items
    /\ json_status' = "ok"
    /\ pc' = "build_lookup"
    /\ UNCHANGED <<exit_code, ENABLE_CACHE, cache_file, results_file,
                   csv_status, csv_packages, lookupVars, package_stats, cache,
                   all_projects, idx, listingVars, components, matches,
                   response, requests>>

\* A run that treats the failure of download_json as it treats that of
\* download_csv.
DownloadJsonFailExits ==
    /\ pc = "download_json"
    /\ json_packages' = <<>>
    /\ json_status' = "failed"
    /\ Exit
    /\ UNCHANGED <<ENABLE_CACHE, cache_file, results_file,
                   csv_status, csv_packages, lookupVars, package_stats, cache,
                   all_projects, idx, listingVars, components, matches,
                   response, requests>>

\* download_json raises: json_packages = {} and the run goes on.
DownloadJsonFail ==
    /\ pc = "download_json"
    /\ json_packages' = <<>>
    /\ json_status' = "failed"
    /\ pc' = "build_lookup"
    /\ UNCHANGED <<exit_code, ENABLE_CACHE, cache_file, results_file,
                   csv_status, csv_packages, lookupVars, package_stats, cache,
                   all_projects, idx, listingVars, components, matches,
                   response, requests>>

\* One iteration of "for package_row in csv_packages".
ProcessCsvRow ==
    /\ pc = "build_lookup"
    /\ row_i <= Len(csv_packages)
    /\ packages_lookup' = CsvStep(packages_lookup, csv_packages[row_i])
    /\ row_i' = row_i + 1
    /\ UNCHANGED <<pc, exit_code, ENABLE_CACHE, cache_file, results_file,
                   feedVars, item_i, package_stats, cache, all_projects, idx,
                   listingVars, components, matches, response,
                   requests>>

\* One iteration of "for package_name, package_data in json_packages.items()".
ProcessJsonPackage ==
    /\ pc = "build_lookup"
    /\ row_i > Len(csv_packages)
    /\ item_i <= Len(json_packages)
    /\ packages_lookup' = JsonStep(packages_lookup, json_packages[item_i])
    /\ item_i' = item_i + 1
    /\ UNCHANGED <<pc, exit_code, ENABLE_CACHE, cache_file, results_file,
                   feedVars, row_i, package_stats, cache, all_projects, idx,
                   listingVars, components, matches, response,
                   requests>>

\* Both loops are over: package_stats is created and the cache is loaded.
PrepareRun ==
    /\ pc = "build_lookup"
    /\ row_i > Len(csv_packages)
    /\ item_i > Len(json_packages)
    /\ package_stats' = InitialStats(packages_lookup)
    /\ cache' = load_cache
    /\ pc' = "get_projects"
    /\ UNCHANGED <<exit_code, ENABLE_CACHE, cache_file, results_file, feedVars,
                   lookupVars, all_projects, idx, listingVars, components,
                   matches, response, requests>>

\* The responses the server may give to the request for page number of a
\* listing.
Answers(pool, number) ==
    IF number < MaxPages THEN pool
    ELSE {r \in pool : Len(r.items) < page_size}

\* get_all_projects has its outcome.
ProjectsDeliver(o) ==
    CASE o.to = "exit" ->
            /\ Exit
            /\ UNCHANGED <<all_projects, idx, listingVars>>
      [] o.to = "return" ->
            /\ all_projects' = o.result
            /\ idx' = 1
            /\ pc' = "project_loop"
            /\ UNCHANGED <<exit_code, listingVars>>
      [] OTHER ->
            /\ pc' = IF o.to = "counted" THEN "projects_counted"
                     ELSE "projects_uncounted"
            /\ acc' = o.acc
            /\ page_number' = o.page_number
            /\ total_pages' = o.total_pages
            /\ UNCHANGED <<exit_code, all_projects, idx>>

ProjectsRequest(number) == [target |-> "projects", page |-> number]

\* get_all_projects: the first request and what follows from its response.
ProjectsFirstRequest ==
    /\ pc = "get_projects"
    /\ \E resp \in Answers(ProjectResponses, 1) :
        /\ response' = resp
        /\ ProjectsDeliver(ProjectsFirstPage(resp))
    /\ requests' = <<ProjectsRequest(1)>>
    /\ UNCHANGED <<ENABLE_CACHE, cache_file, results_file, feedVars,
                   lookupVars, package_stats, cache, components,
                   matches>>

\* get_all_projects: one request of the for loop.
ProjectsCountedRequest ==
    /\ pc = "projects_counted"
    /\ \E resp \in Answers(ProjectResponses, page_number) :
        /\ response' = resp
        /\ ProjectsDeliver(ProjectsCountedPage(resp, acc, page_number,
                                               total_pages))
    /\ requests' = Append(requests, ProjectsRequest(page_number))
    /\ UNCHANGED <<ENABLE_CACHE, cache_file, results_file, feedVars,
                   lookupVars, package_stats, cache, components,
                   matches>>

\* get_all_projects: one request of the while loop.
ProjectsUncountedRequest ==
    /\ pc = "projects_uncounted"
    /\ \E resp \in Answers(ProjectResponses, page_number) :
        /\ response' = resp
        /\ ProjectsDeliver(ProjectsUncountedPage(resp, acc, page_number))
    /\ requests' = Append(requests, ProjectsRequest(page_number))
    /\ UNCHANGED <<ENABLE_CACHE, cache_file, results_file, feedVars,
                   lookupVars, package_stats, cache, components,
                   matches>>

\* The project the for loop of main() is at.
project == all_projects[idx]

\* "if not project_uuid: continue"
SkipProject ==
    /\ pc = "project_loop"
    /\ idx <= Len(all_projects)
    /\ project.uuid = ""
    /\ idx' = idx + 1
    /\ UNCHANGED <<pc, exit_code, ENABLE_CACHE, cache_file, results_file,
                   feedVars, lookupVars, package_stats, cache, all_projects,
                   listingVars, components, matches, response,
                   requests>>

\* get_project_components finds the project in the cache.
CacheHit ==
    /\ pc = "project_loop"
    /\ idx <= Len(all_projects)
    /\ project.uuid # ""
    /\ ENABLE_CACHE
    /\ project.uuid \in DOMAIN cache
    /\ components' = cache[project.uuid]
    /\ response' = NoResponseYet
    /\ requests' = <<>>
    /\ pc' = "classify"
    /\ UNCHANGED <<exit_code, ENABLE_CACHE, cache_file, results_file, feedVars,
                   lookupVars, package_stats, cache, all_projects, idx,
                   listingVars, matches>>

\* get_project_components has its outcome.
ComponentsDeliver(o) ==
    CASE o.to = "exit" ->
            /\ Exit
            /\ UNCHANGED <<cache, components, listingVars>>
      [] o.to = "crash" ->
            /\ Crash
            /\ UNCHANGED <<cache, components, listingVars>>
      [] o.to = "return" ->
            /\ cache' = IF ENABLE_CACHE /\ o.store
                        THEN Put(cache, project.uuid, o.result)
                        ELSE cache
            /\ components' = o.result
                    /\ pc' = "classify"
            /\ UNCHANGED <<exit_code, listingVars>>
      [] OTHER ->
            /\ pc' = IF o.to = "counted" THEN "components_counted"
                     ELSE "components_uncounted"
            /\ acc' = o.acc
            /\ page_number' = o.page_number
            /\ total_pages' = o.total_pages
            /\ UNCHANGED <<exit_code, cache, components>>

ComponentsRequest(number) == [target |-> project.uuid, page |-> number]

\* get_project_components: the project is not served from the cache; the
\* first request and what follows from its response.
ComponentsFirstRequest ==
    /\ pc = "project_loop"
    /\ idx <= Len(all_projects)
    /\ project.uuid # ""
    /\ ~(ENABLE_CACHE /\ project.uuid \in DOMAIN cache)
    /\ \E resp \in Answers(ComponentResponses, 1) :
        /\ response' = resp
        /\ ComponentsDeliver(ComponentsFirstPage(resp))
    /\ requests' = <<ComponentsRequest(1)>>
    /\ UNCHANGED <<ENABLE_CACHE, cache_file, results_file, feedVars,
                   lookupVars, package_stats, all_projects, idx, matches>>

\* get_project_components: one request of the for loop.
ComponentsCountedRequest ==
    /\ pc = "components_counted"
    /\ \E resp \in Answers(ComponentResponses, page_number) :
        /\ response' = resp
        /\ ComponentsDeliver(ComponentsCountedPage(resp, acc, page_number,
                                                   total_pages))
    /\ requests' = Append(requests, ComponentsRequest(page_number))
    /\ UNCHANGED <<ENABLE_CACHE, cache_file, results_file, feedVars,
                   lookupVars, package_stats, all_projects, idx, matches>>

\* get_project_components: one request of the while loop.
ComponentsUncountedRequest ==
    /\ pc = "components_uncounted"
    /\ \E resp \in Answers(ComponentResponses, page_number) :
        /\ response' = resp
        /\ ComponentsDeliver(ComponentsUncountedPage(resp, acc, page_number))
    /\ requests' = Append(requests, ComponentsRequest(page_number))
    /\ UNCHANGED <<ENABLE_CACHE, cache_file, results_file, feedVars,
                   lookupVars, package_stats, all_projects, idx, matches>>

\* The body of "for component in components" for one component: a component
\* without name is passed over, any other is classified and recorded.  st is
\* [matches, stats].
ClassifyComponent(st, comp, project_uuid, project_name) ==
    IF comp.name = <<>> THEN st
    ELSE LET m == match_component_against_packages(comp.name, comp.version,
                                                   packages_lookup)
         IN  [matches |-> m,
              stats   |-> RecordMatches(st.stats, m, project_uuid,
                                        project_name, comp.version)]

\* The whole loop "for component in components", in list order: the first
\* half of the list, then the second half from the state the first half left.
\* (Halving keeps the evaluation shallow on pages of page_size components;
\* the test left = left only makes TLC evaluate left before the second half.)
RECURSIVE ClassifyAll(_, _, _, _)
ClassifyAll(st, comps, project_uuid, project_name) ==
    IF comps = <<>> THEN st
    ELSE IF Len(comps) = 1
    THEN ClassifyComponent(st, comps[1], project_uuid, project_name)
    ELSE LET half == Len(comps) \div 2
             left == ClassifyAll(st, SubSeq(comps, 1, half), project_uuid,
                                 project_name)
         IN  IF left = left
             THEN ClassifyAll(left, SubSeq(comps, half + 1, Len(comps)),
                              project_uuid, project_name)
             ELSE st

\* The rest of one iteration of the project loop, once the components are
\* there: every component is classified and recorded, and results and cache
\* are saved when idx is a multiple of 10.
ProcessComponents ==
    /\ pc = "classify"
    /\ LET st == ClassifyAll([matches |-> matches, stats |-> package_stats],
                             components, project.uuid, project.name)
       IN  /\ matches' = st.matches
           /\ package_stats' = st.stats
           /\ IF idx % save_every = 0
              THEN /\ results_file' = <<save_results(
                          build_stats_from_package_stats(st.stats,
                                                         packages_lookup),
                          idx)>>
                   /\ cache_file' = save_cache(cache)
              ELSE UNCHANGED <<results_file, cache_file>>
    /\ idx' = idx + 1
    /\ pc' = "project_loop"
    /\ UNCHANGED <<exit_code, ENABLE_CACHE, feedVars, lookupVars, cache,
                   all_projects, listingVars, components, response, requests>>

\* The project loop is over: the final save.
FinalSave ==
    /\ pc = "project_loop"
    /\ idx > Len(all_projects)
    /\ results_file' = <<save_results(
           build_stats_from_package_stats(package_stats, packages_lookup),
           Len(all_projects))>>
    /\ cache_file' = save_cache(cache)
    /\ pc' = "done"
    /\ exit_code' = <<0>>
    /\ UNCHANGED <<ENABLE_CACHE, feedVars, lookupVars, package_stats, cache,
                   all_projects, idx, listingVars, components, matches,
                   response, requests>>

Next ==
    \/ DownloadCsvOk
    \/ DownloadCsvFail
    \/ DownloadJsonOk
    \/ DownloadJsonFail
    \/ ProcessCsvRow
    \/ ProcessJsonPackage
    \/ PrepareRun
    \/ ProjectsFirstRequest
    \/ ProjectsCountedRequest
    \/ ProjectsUncountedRequest
    \/ SkipProject
    \/ CacheHit
    \/ ComponentsFirstRequest
    \/ ComponentsCountedRequest
    \/ ComponentsUncountedRequest
    \/ ProcessComponents
    \/ FinalSave

Spec == Init /\ [][Next]_vars

\* ------------------------------------------------------------------------
\* The reconciliation of the two feeds on its own
\* ------------------------------------------------------------------------

\* All sequences over S of length at most n.
RECURSIVE SeqsUpTo(_, _)
SeqsUpTo(S, n) ==
    IF n = 0 THEN {<<>>}
    ELSE LET shorter == SeqsUpTo(S, n - 1)
         IN  shorter \cup {Append(q, x) : q \in shorter, x \in S}

\* The versions the feeds list: none at all (the empty string), plain,
\* written with a v, and one of another major version.
FeedVersions == {<<>>, V10, Vv10, V20}

\* Feed A with no row or one row for package a; Feed B without or with
\* package a.
LookupCsvFeeds ==
    {<<>>} \cup {<<Row(PkgA, EqJoin(ts))>> :
                    ts \in SeqsUpTo(FeedVersions, MaxTerms) \ {<<>>}}

LookupJsonFeeds ==
    {<<>>} \cup {<<Item(PkgA, l)>> : l \in SeqsUpTo(FeedVersions, MaxTerms)}

\* main() with both feeds downloaded, about to build packages_lookup.
FeedsDownloaded(rows, items) ==
    /\ pc = "build_lookup"
    /\ exit_code = <<>>
    /\ ENABLE_CACHE = FALSE
    /\ cache_file = EmptyDict
    /\ results_file = <<>>
    /\ csv_status = "ok"
    /\ json_status = "ok"
    /\ csv_packages = rows
    /\ json_packages = items
    /\ row_i = 1
    /\ item_i = 1
    /\ packages_lookup = EmptyDict
    /\ package_stats = EmptyDict
    /\ cache = EmptyDict
    /\ all_projects = <<>>
    /\ idx = 1
    /\ acc = <<>>
    /\ page_number = 1
    /\ total_pages = 0
    /\ components = <<>>
    /\ matches = NoMatches
    /\ response = NoResponseYet
    /\ requests = <<>>

InitLookup ==
    \E rows \in LookupCsvFeeds, items \in LookupJsonFeeds :
        FeedsDownloaded(rows, items)

NextLookup ==
    \/ ProcessCsvRow
    \/ ProcessJsonPackage
    \/ PrepareRun

SpecLookup == InitLookup /\ [][NextLookup]_vars

\* ------------------------------------------------------------------------
\* The parser on its own, through the loop over the Feed A rows
\* ------------------------------------------------------------------------

TermChars == {"1", ".", "=", " "}

\* The terms A, B, C of "= A || = B || = C": no surrounding whitespace, no
\* leading "=".
ParseTerms ==
    {t \in SeqsUpTo(TermChars, MaxVerLen) :
        Strip(t) = t /\ ~StartsWith(t, <<"=">>)}

RawChars == {"1", "=", " ", "|"}

\* Either Feed A has one row whose expression is "= A || = B ..." and Feed B
\* lists the very versions A, B, ... for another package, or Feed A has one
\* row with an arbitrary expression.
InitParse ==
    \/ \E ts \in SeqsUpTo(ParseTerms, MaxTerms) \ {<<>>} :
          FeedsDownloaded(<<Row(PkgA, EqJoin(ts))>>, <<Item(PkgB, ts)>>)
    \/ \E raw \in SeqsUpTo(RawChars, MaxRawLen) :
          FeedsDownloaded(<<Row(PkgA, raw)>>, <<>>)

SpecParse == InitParse /\ [][NextLookup]_vars

\* ------------------------------------------------------------------------
\* The classifier on its own, through the project loop
\* ------------------------------------------------------------------------

ComponentVersions ==
    {<<>>, V10, Vv10, <<"V", "1", ".", "0">>, V20, <<"1", ".", "5">>,
     <<".", "1">>, <<"v">>}

MatchComponents ==
    {Comp(PkgA, v) : v \in ComponentVersions} \cup {Comp(PkgZ, V10)}

\* main() as the project loop starts, the server having listed one project
\* whose one component is in the cache.
InitMatch ==
    \E rows \in LookupCsvFeeds, items \in LookupJsonFeeds,
       comp \in MatchComponents :
        /\ pc = "project_loop"
        /\ exit_code = <<>>
        /\ ENABLE_CACHE = TRUE
        /\ cache_file = [u \in {"u1"} |-> <<comp>>]
        /\ results_file = <<>>
        /\ csv_status = "ok"
        /\ json_status = "ok"
        /\ csv_packages = rows
        /\ json_packages = items
        /\ row_i = Len(rows) + 1
        /\ item_i = Len(items) + 1
        /\ packages_lookup = BuildLookup(rows, items)
        /\ package_stats = InitialStats(BuildLookup(rows, items))
        /\ cache = [u \in {"u1"} |-> <<comp>>]
        /\ all_projects = <<Proj("u1", "p1")>>
        /\ idx = 1
        /\ acc = <<>>
        /\ page_number = 1
        /\ total_pages = 0
        /\ components = <<>>
        /\ matches = NoMatches
        /\ response = Ok(NoHeader, "list", <<Proj("u1", "p1")>>)
        /\ requests = <<ProjectsRequest(1)>>

NextMatch ==
    \/ CacheHit
    \/ ProcessComponents
    \/ FinalSave

SpecMatch == InitMatch /\ [][NextMatch]_vars

\* ------------------------------------------------------------------------
\* The aggregation on its own: every project's components come from the
\* cache
\* ------------------------------------------------------------------------

\* Most components of one project in the aggregation runs.
MaxComps == 2

AggregateComponents ==
    {Comp(PkgA, V10), Comp(PkgA, V20), Comp(PkgA, <<>>), Comp(PkgB, V20),
     Comp(PkgZ, V10)}

\* cache.json: the components of project u1 and of project u2.
AggregateCacheFiles ==
    {("u1" :> first) @@ ("u2" :> second) :
        first \in SeqsUpTo(AggregateComponents, MaxComps),
        second \in {<<>>, <<Comp(PkgA, V20)>>, <<Comp(PkgB, V20)>>}}

\* Project lists: two projects, one project listed twice under two names,
\* a project without uuid between two others, one project.
AggregateProjectLists ==
    {<<Proj("u1", "p1"), Proj("u2", "p2")>>,
     <<Proj("u1", "p1"), Proj("u1", "p1b")>>,
     <<Proj("u2", "p2"), Proj("", "p0"), Proj("u1", "p1")>>,
     <<Proj("u1", "p1")>>}

AggregateCsvFeeds == {<<Row(PkgA, <<"=", " ">> \o V10)>>}

AggregateJsonFeeds == {<<>>, <<Item(PkgB, <<>>)>>}

\* main() as the project loop starts: the feeds are reconciled, the cache is
\* loaded, get_all_projects has returned projects.
ProjectLoopStarts(rows, items, projects, file, enabled) ==
    /\ pc = "project_loop"
    /\ exit_code = <<>>
    /\ ENABLE_CACHE = enabled
    /\ cache_file = file
    /\ results_file = <<>>
    /\ csv_status = "ok"
    /\ json_status = "ok"
    /\ csv_packages = rows
    /\ json_packages = items
    /\ row_i = Len(rows) + 1
    /\ item_i = Len(items) + 1
    /\ packages_lookup = BuildLookup(rows, items)
    /\ package_stats = InitialStats(BuildLookup(rows, items))
    /\ cache = IF enabled THEN file ELSE EmptyDict
    /\ all_projects = projects
    /\ idx = 1
    /\ acc = <<>>
    /\ page_number = 1
    /\ total_pages = 0
    /\ components = <<>>
    /\ matches = NoMatches
    /\ response = Ok(NoHeader, "list", projects)
    /\ requests = <<ProjectsRequest(1)>>

InitAggregate ==
    \E rows \in AggregateCsvFeeds, items \in AggregateJsonFeeds,
       projects \in AggregateProjectLists, file \in AggregateCacheFiles :
        ProjectLoopStarts(rows, items, projects, file, TRUE)

NextAggregate ==
    \/ SkipProject
    \/ CacheHit
    \/ ProcessComponents
    \/ FinalSave

SpecAggregate == InitAggregate /\ [][NextAggregate]_vars

\* ------------------------------------------------------------------------
\* The project loop over lists long enough for the incremental save
\* ------------------------------------------------------------------------

\* k projects without uuid
Fillers(k) == [i \in 1..k |-> FillerProject]

\* Project lists of ten and eleven entries: the tenth entry is a project
\* with uuid in the first two and one without in the third.
CheckpointProjectLists ==
    {Fillers(9) \o <<Proj("u1", "p1"), Proj("u2", "p2")>>,
     <<Proj("u1", "p1")>> \o Fillers(8) \o <<Proj("u2", "p2")>>,
     <<Proj("u1", "p1")>> \o Fillers(9) \o <<Proj("u2", "p2")>>}

InitCheckpoint ==
    \E rows \in AggregateCsvFeeds, items \in AggregateJsonFeeds,
       projects \in CheckpointProjectLists, file \in RunCacheFiles,
       enabled \in BOOLEAN :
        ProjectLoopStarts(rows, items, projects, file, enabled)

NextCheckpoint ==
    \/ SkipProject
    \/ CacheHit
    \/ ComponentsFirstRequest
    \/ ComponentsCountedRequest
    \/ ComponentsUncountedRequest
    \/ ProcessComponents
    \/ FinalSave

SpecCheckpoint == InitCheckpoint /\ [][NextCheckpoint]_vars

\* ------------------------------------------------------------------------
\* The reconciliation over a Feed A with several rows
\* ------------------------------------------------------------------------

\* Rows of Feed A for the packages a and b.
RepeatedRows ==
    {Row(p, EqJoin(ts)) : p \in {PkgA, PkgB},
                          ts \in {<<V10>>, <<V20>>, <<V10, V20>>}}

\* Feed A of one or two rows, the two possibly for the same package.
RepeatedCsvFeeds ==
    {<<r>> : r \in RepeatedRows}
        \cup {<<r, q>> : r \in RepeatedRows, q \in RepeatedRows}

RepeatedJsonFeeds == {<<>>, <<Item(PkgA, <<>>)>>, <<Item(PkgA, <<Vv10>>)>>}

InitRows ==
    \E rows \in RepeatedCsvFeeds, items \in RepeatedJsonFeeds :
        FeedsDownloaded(rows, items)

SpecRows == InitRows /\ [][NextLookup]_vars

\* ------------------------------------------------------------------------
\* Properties
\* ------------------------------------------------------------------------

\* The part of s before its first "." (all of s when it has none).
BeforeFirstDot(s) ==
    LET dots == {i \in 1..Len(s) : s[i] = "."}
    IN  IF dots = {} THEN s ELSE SubSeq(s, 1, MinOf(dots) - 1)

\* s without its leading v and V characters.
WithoutLeadingV(s) ==
    LET others == {i \in 1..Len(s) : s[i] \notin {"v", "V"}}
    IN  IF others = {} THEN <<>> ELSE SubSeq(s, MinOf(others), Len(s))

\* The versions Feed B lists for package n (n is one of its names).
FeedBList(n) ==
    LET k == CHOOSE j \in 1..Len(json_packages) : json_packages[j].name = n
    IN  json_packages[k].versions

\* Both loops over the feeds are over.
LookupBuilt ==
    /\ csv_status = "ok"
    /\ row_i > Len(csv_packages)
    /\ item_i > Len(json_packages)

\* The last request sent asked for a page of a project's components.
LastRequestIsForComponents ==
    /\ requests # <<>>
    /\ requests[Len(requests)].target # "projects"

\* A failure of a component fetch that is no authorization failure: an
\* exception without response, a 5xx, or a first page that is not JSON.
NonAuthFailure(resp) ==
    \/ resp.kind \in {"connection_error", "timeout"}
    \/ resp.kind = "http" /\ resp.status >= 500
    \/ resp.kind = "http" /\ resp.status = 200 /\ ~resp.json
          /\ Len(requests) = 1

\* C1: whenever the fetch of a project's components fails without being an
\* authorization failure (connection error, timeout, 5xx on any page, a body
\* that is not JSON), the project gets the empty component list, and the run
\* goes on to classify it and to the next project: the run is neither exited
\* nor ended by an uncaught exception.
C1_FetchFailureDegrades ==
    (LastRequestIsForComponents /\ NonAuthFailure(response)) =>
        /\ pc \in {"classify", "project_loop", "done"}
        /\ components = <<>>
        /\ exit_code \in {<<>>, <<0>>}

\* C2: in every entry of packages_lookup, all_versions_malicious is true
\* exactly when malicious_versions is empty.
C2_AllVersionsIffNoVersions ==
    \A n \in DOMAIN packages_lookup :
        packages_lookup[n].all_versions_malicious
            <=> packages_lookup[n].malicious_versions = <<>>

\* C2, amended: an entry that comes from one feed only has
\* all_versions_malicious true exactly when its malicious_versions is empty;
\* an entry merged from both feeds keeps Feed A's versions, so its
\* malicious_versions is never empty, and its all_versions_malicious is true
\* exactly when Feed B's list for the package is empty.  In every entry an
\* empty malicious_versions implies all_versions_malicious.
C2_AllVersionsIffNoVersionsOneFeed ==
    \A n \in DOMAIN packages_lookup :
        LET e == packages_lookup[n]
        IN  /\ e.source \in {"CSV", "JSON"} =>
                  (e.all_versions_malicious <=> e.malicious_versions = <<>>)
            /\ e.source = "CSV+JSON" =>
                  /\ e.malicious_versions # <<>>
                  /\ e.all_versions_malicious <=> FeedBList(n) = <<>>
            /\ e.malicious_versions = <<>> => e.all_versions_malicious
            /\ e.source \in {"CSV", "JSON", "CSV+JSON"}

\* A merged entry whose all_versions_malicious is true and which lists
\* Feed A's versions.
C2_Witness ==
    \E n \in DOMAIN packages_lookup :
        /\ packages_lookup[n].source = "CSV+JSON"
        /\ packages_lookup[n].all_versions_malicious
        /\ packages_lookup[n].malicious_versions # <<>>

\* In the classifier's runs the project has one component, classified once
\* idx has moved past the project.
Classified == idx > 1

TheComponent == components[1]

TheEntry == packages_lookup[TheComponent.name]

\* The tier lists the component's package, the only name a tier can list.
Hit(tier) == matches[tier] = <<TheComponent.name>>

Miss(tier) == matches[tier] = <<>>

\* C3: for an entry with all_versions_malicious (from Feed B alone or
\* merged), a component of that name is an exact-version match whatever its
\* version, and a major-version match exactly when its version is not empty.
C3_AllVersionsMalicious ==
    (/\ Classified
     /\ TheComponent.name \in DOMAIN packages_lookup
     /\ TheEntry.all_versions_malicious) =>
        /\ Hit("exact_version")
        /\ IF TheComponent.version # <<>>
           THEN Hit("major_version") ELSE Miss("major_version")

\* A component without version classified against a merged entry with
\* all_versions_malicious.
C3_Witness ==
    /\ Classified
    /\ TheComponent.name \in DOMAIN packages_lookup
    /\ TheEntry.all_versions_malicious
    /\ TheEntry.source = "CSV+JSON"
    /\ TheComponent.version = <<>>
    /\ Hit("exact_version")

\* C4: for an entry without all_versions_malicious, a component of that name
\* is a major-version match exactly when the entry's major_version is not
\* None (the empty string counting as a major version), the component version
\* without its leading v/V is not empty, and what precedes its first "."
\* equals the entry's major_version.
C4_MajorVersionNonNull ==
    (/\ Classified
     /\ TheComponent.name \in DOMAIN packages_lookup
     /\ ~TheEntry.all_versions_malicious) =>
        LET clean == WithoutLeadingV(TheComponent.version)
            same  == /\ TheEntry.major_version # None
                     /\ clean # <<>>
                     /\ BeforeFirstDot(clean) = TheEntry.major_version
        IN  IF same THEN Hit("major_version") ELSE Miss("major_version")

\* C4, amended: ... exactly when the entry's major_version is neither None
\* nor the empty string, the component version without its leading v/V is not
\* empty, and what precedes its first "." equals the entry's major_version.
C4_MajorVersionNonEmpty ==
    (/\ Classified
     /\ TheComponent.name \in DOMAIN packages_lookup
     /\ ~TheEntry.all_versions_malicious) =>
        LET clean == WithoutLeadingV(TheComponent.version)
            same  == /\ TheEntry.major_version # None
                     /\ TheEntry.major_version # <<>>
                     /\ clean # <<>>
                     /\ BeforeFirstDot(clean) = TheEntry.major_version
        IN  IF same THEN Hit("major_version") ELSE Miss("major_version")

\* A component whose version starts with "." classified against an entry
\* whose major_version is the empty string: no major-version match.
C4_Witness ==
    /\ Classified
    /\ TheComponent.name \in DOMAIN packages_lookup
    /\ ~TheEntry.all_versions_malicious
    /\ TheEntry.major_version = <<>>
    /\ TheComponent.version = <<".", "1">>
    /\ Miss("major_version")

\* C5: for an entry without all_versions_malicious, a component of that name
\* is an exact-version match exactly when its version as reported, or its
\* version without the leading v/V characters, is one of the entry's
\* malicious_versions.
C5_ExactVersion ==
    (/\ Classified
     /\ TheComponent.name \in DOMAIN packages_lookup
     /\ ~TheEntry.all_versions_malicious) =>
        LET listed == {TheEntry.malicious_versions[k] :
                          k \in 1..Len(TheEntry.malicious_versions)}
        IN  IF \/ TheComponent.version \in listed
               \/ WithoutLeadingV(TheComponent.version) \in listed
            THEN Hit("exact_version") ELSE Miss("exact_version")

\* A component "v1.0" matched by the entry's "v1.0" alone, "1.0" not being
\* listed.
C5_Witness ==
    /\ Classified
    /\ TheComponent.name \in DOMAIN packages_lookup
    /\ ~TheEntry.all_versions_malicious
    /\ TheComponent.version = Vv10
    /\ Vv10 \in Range(TheEntry.malicious_versions)
    /\ V10 \notin Range(TheEntry.malicious_versions)
    /\ Hit("exact_version")

\* C6: once both feeds are processed, the entry of a package that Feed A and
\* Feed B both list has as malicious_versions the union of the versions
\* parsed from the Feed A row and of Feed B's list, without duplicates and in
\* ascending string order; its all_versions_malicious says whether Feed B's
\* list is empty, whatever Feed A holds; its source is "CSV+JSON".
C6_MergeIsSortedUnion ==
    LookupBuilt =>
        \A i \in 1..Len(csv_packages), j \in 1..Len(json_packages) :
            LET name == Strip(csv_packages[i].Package)
                fromA == parse_version(Strip(csv_packages[i].Version)).versions
                fromB == json_packages[j].versions
                e     == packages_lookup[name]
                vs    == e.malicious_versions
            IN  (name # <<>> /\ json_packages[j].name = name) =>
                    /\ {vs[k] : k \in 1..Len(vs)}
                          = {fromA[k] : k \in 1..Len(fromA)}
                               \cup {fromB[k] : k \in 1..Len(fromB)}
                    /\ \A k \in 1..(Len(vs) - 1) : StrLess(vs[k], vs[k + 1])
                    /\ e.all_versions_malicious = (Len(fromB) = 0)
                    /\ e.source = "CSV+JSON"

\* A merged entry with at least three versions, some from each feed.
C6_Witness ==
    /\ LookupBuilt
    /\ PkgA \in DOMAIN packages_lookup
    /\ packages_lookup[PkgA].source = "CSV+JSON"
    /\ Len(packages_lookup[PkgA].malicious_versions) >= 3
    /\ ~packages_lookup[PkgA].all_versions_malicious

\* C7: once a request to the inventory server (for the projects or for a
\* project's components, first page or later) is answered 401, 403 or 405,
\* the run has exited with code 1 and takes no further step: no list is
\* returned in place of the response, no project is fetched or classified
\* afterwards.
C7_AuthRejectionAborts ==
    (response.kind = "http" /\ response.status \in {401, 403, 405}) =>
        /\ pc = "exited"
        /\ exit_code = <<1>>
        /\ ~ENABLED Next

\* A 403 on a later page of a project's components, with projects left.
C7_Witness ==
    /\ pc = "exited"
    /\ response.status = 403
    /\ Len(requests) >= 2
    /\ requests[1].target # "projects"
    /\ idx < Len(all_projects)

\* C8: if download_csv fails the run has exited with code 1, has sent no
\* request to the inventory server and has written no results; if
\* download_json fails, Feed B is empty, the run does not end before it
\* queries the inventory server, every entry of packages_lookup has source
\* "CSV" and all_versions_malicious false, and the finished packages_lookup
\* is the one the Feed A rows alone give.
C8_FeedDownloadFailure ==
    /\ csv_status = "failed" =>
          /\ pc = "exited"
          /\ exit_code = <<1>>
          /\ requests = <<>>
          /\ response = NoResponseYet
          /\ results_file = <<>>
          /\ ~ENABLED Next
    /\ json_status = "failed" =>
          /\ json_packages = <<>>
          /\ pc \in {"exited", "crashed"} => requests # <<>>
          /\ \A n \in DOMAIN packages_lookup :
                /\ packages_lookup[n].source = "CSV"
                /\ ~packages_lookup[n].all_versions_malicious
          /\ pc # "build_lookup" =>
                /\ packages_lookup = FoldCsv(EmptyDict, csv_packages)
                /\ DOMAIN packages_lookup
                      = {Strip(csv_packages[i].Package) :
                            i \in 1..Len(csv_packages)} \ {<<>>}

\* A run without Feed B that went through to its final save.
C8_Witness ==
    /\ json_status = "failed"
    /\ pc = "done"
    /\ DOMAIN packages_lookup # {}
    /\ results_file # <<>>

\* C9: the any-version tier is hit exactly when the component's name is a
\* key of packages_lookup; for a name that is not, no tier is hit and the
\* statistics of every package stay empty; a hit of the exact-version or of
\* the major-version tier comes with a hit of the any-version tier, in the
\* classifier's result and in the statistics.
C9_AnyVersionIffListed ==
    Classified =>
        /\ IF TheComponent.name \in DOMAIN packages_lookup
           THEN Hit("any_version") ELSE Miss("any_version")
        /\ TheComponent.name \notin DOMAIN packages_lookup =>
              /\ Miss("exact_version")
              /\ Miss("major_version")
              /\ \A pkg \in DOMAIN package_stats :
                    /\ DOMAIN package_stats[pkg].projects_any_version = {}
                    /\ DOMAIN package_stats[pkg].projects_exact_version = {}
                    /\ DOMAIN package_stats[pkg].projects_major_version = {}
        /\ (~Miss("exact_version") \/ ~Miss("major_version"))
              => Hit("any_version")
        /\ \A pkg \in DOMAIN package_stats :
              /\ DOMAIN package_stats[pkg].projects_exact_version
                    \subseteq DOMAIN package_stats[pkg].projects_any_version
              /\ DOMAIN package_stats[pkg].projects_major_version
                    \subseteq DOMAIN package_stats[pkg].projects_any_version
              /\ DOMAIN package_stats[pkg].projects_any_version =
                    IF pkg = TheComponent.name THEN {"u1"} ELSE {}

\* A component whose name no feed lists, classified against a lookup that is
\* not empty.
C9_Witness ==
    /\ Classified
    /\ TheComponent.name = PkgZ
    /\ DOMAIN packages_lookup # {}
    /\ matches = NoMatches

\* C10: when the expression of the Feed A row is "= A || = B ..." for the
\* terms A, B, ... that Feed B lists, the versions parsed from it are those
\* terms in that order, and the major version is what precedes the first "."
\* of A; whatever the expression, the parser gives at least one version and a
\* major version that is what precedes the first "." of the first one.
C10_ParseVersionTerms ==
    (row_i > 1 /\ PkgA \in DOMAIN packages_lookup) =>
        LET e == packages_lookup[PkgA]
        IN  /\ (/\ json_packages # <<>>
                /\ csv_packages[1].Version
                      = EqJoin(json_packages[1].versions)) =>
                  /\ e.malicious_versions = json_packages[1].versions
                  /\ e.major_version
                        = BeforeFirstDot(json_packages[1].versions[1])
            /\ Len(e.malicious_versions) >= 1
            /\ e.major_version # None
            /\ e.major_version = BeforeFirstDot(e.malicious_versions[1])
            /\ e.source = "CSV"

\* An expression of two terms, the first with a ".".
C10_Witness ==
    /\ row_i > 1
    /\ json_packages # <<>>
    /\ csv_packages[1].Version = EqJoin(json_packages[1].versions)
    /\ PkgA \in DOMAIN packages_lookup
    /\ Len(packages_lookup[PkgA].malicious_versions) >= 2
    /\ packages_lookup[PkgA].malicious_versions[1] = <<"1", ".">>
    /\ packages_lookup[PkgA].major_version = <<"1">>

\* C11: once a request for a page of a project's components (the first or a
\* later one) is answered 404, get_project_components has returned the empty
\* list, the run goes on with that project and the next, and with caching
\* enabled the cache holds the empty list for the project.
C11_NotFoundIsNoComponents ==
    (/\ LastRequestIsForComponents
     /\ response.kind = "http"
     /\ response.status = 404) =>
        /\ pc \in {"classify", "project_loop", "done"}
        /\ exit_code \in {<<>>, <<0>>}
        /\ components = <<>>
        /\ ENABLE_CACHE =>
              /\ requests[1].target \in DOMAIN cache
              /\ cache[requests[1].target] = <<>>
        /\ ~ENABLE_CACHE => cache = EmptyDict

\* A 404 on a later page, after a first page with components, caching
\* enabled.
C11_Witness ==
    /\ LastRequestIsForComponents
    /\ response.status = 404
    /\ Len(requests) >= 2
    /\ acc # <<>>
    /\ ENABLE_CACHE
    /\ pc = "classify"
    /\ components = <<>>
    /\ cache[requests[1].target] = <<>>

\* The tiers of package_stats and of the classifier's result.
StatsTiers ==
    {<<"projects_any_version", "any_version">>,
     <<"projects_exact_version", "exact_version">>,
     <<"projects_major_version", "major_version">>}

\* The components of the k-th project, in the runs where every project's
\* components come from the cache.
ComponentsOf(k) ==
    IF all_projects[k].uuid = "" THEN <<>> ELSE cache[all_projects[k].uuid]

\* The processed components of package pkg for which the tier was true, each
\* as <<position of the project, position of the component in it>>.
TierEvents(pkg, tier) ==
    {e \in UNION {{<<k, j>> : j \in 1..Len(ComponentsOf(k))} :
                     k \in 1..(idx - 1)} :
        /\ ComponentsOf(e[1])[e[2]].name = pkg
        /\ match_component_against_packages(
               pkg, ComponentsOf(e[1])[e[2]].version, packages_lookup)[tier]
              # <<>>}

\* The last of a non-empty set of events, in processing order.
LastEvent(events) ==
    CHOOSE e \in events :
        \A f \in events : f[1] < e[1] \/ (f[1] = e[1] /\ f[2] <= e[2])

\* Each tier mapping of each package holds exactly the projects with a
\* processed component of that package for which the tier was true, with the
\* name of the project and the version of the last such component.
TierMappingsExact ==
    /\ DOMAIN package_stats = DOMAIN packages_lookup
    /\ \A pkg \in DOMAIN package_stats, t \in StatsTiers :
          LET mapping == package_stats[pkg][t[1]]
              events  == TierEvents(pkg, t[2])
              of(u)   == {e \in events : all_projects[e[1]].uuid = u}
          IN  /\ DOMAIN mapping = {all_projects[e[1]].uuid : e \in events}
              /\ \A u \in DOMAIN mapping :
                    LET last == LastEvent(of(u))
                    IN  mapping[u] =
                            [name    |-> all_projects[last[1]].name,
                             version |-> ComponentsOf(last[1])[last[2]].version]

\* A step removes no project from any tier mapping.
TierMappingsGrow ==
    /\ DOMAIN package_stats \subseteq DOMAIN package_stats'
    /\ \A pkg \in DOMAIN package_stats, t \in StatsTiers :
          DOMAIN package_stats[pkg][t[1]]
              \subseteq DOMAIN package_stats'[pkg][t[1]]

\* C12: at every point of the project loop, each tier mapping of each package
\* holds exactly the identifiers of the projects that had a processed
\* component of that package with that tier true, each with the project name
\* and the version of the last such component processed; and no step removes
\* an identifier from a tier mapping.
C12_TierMappings == []TierMappingsExact /\ [][TierMappingsGrow]_vars

\* Project u1 has components a 1.0 and then a 2.0: the any-version tier keeps
\* 2.0, the exact-version tier 1.0; u1 is listed twice and the second name is
\* kept.
C12_Witness ==
    /\ pc = "done"
    /\ all_projects = <<Proj("u1", "p1"), Proj("u1", "p1b")>>
    /\ cache["u1"] = <<Comp(PkgA, V10), Comp(PkgA, V20)>>
    /\ package_stats[PkgA].projects_any_version["u1"]
          = [name |-> "p1b", version |-> V20]
    /\ package_stats[PkgA].projects_exact_version["u1"]
          = [name |-> "p1b", version |-> V10]

\* The statistics document last written, and its three tiers.
Document == results_file[1]

DocumentTiers ==
    {"projects_any_version", "projects_exact_version",
     "projects_major_version"}

\* The document was written from package_stats as it is now: by the final
\* save, or by the incremental save of the project the loop has just left.
DocumentIsFresh ==
    \/ pc = "done"
    \/ /\ pc = "project_loop"
       /\ idx > 1
       /\ (idx - 1) % 10 = 0
       /\ all_projects[idx - 1].uuid # ""

\* C13: in every statistics document written, at an incremental save or at
\* the final one, the count of each tier of each listed package is the number
\* of projects in that tier's mapping; the global set of each tier is the
\* union of that tier's mappings, over the listed packages of the document
\* and over all packages of package_stats the document was written from; the
\* summary counts are the sizes of the global sets.
C13_DocumentCounts ==
    results_file # <<>> =>
        LET details == Document.analysis_results.package_details
            summary == Document.analysis_results.summary
        IN  /\ \A pkg \in DOMAIN details, t \in DocumentTiers :
                  details[pkg][t].count
                      = Cardinality(DOMAIN details[pkg][t].projects)
            /\ \A t \in DocumentTiers :
                  /\ DOMAIN Document.projects_list[t]
                        = UNION {DOMAIN details[pkg][t].projects :
                                    pkg \in DOMAIN details}
                  /\ summary[t] = Cardinality(DOMAIN Document.projects_list[t])
            /\ summary.packages_with_projects = Cardinality(DOMAIN details)
            /\ DocumentIsFresh =>
                  /\ DOMAIN details
                        = {pkg \in DOMAIN package_stats :
                              DOMAIN package_stats[pkg].projects_any_version
                                  # {}}
                  /\ \A pkg \in DOMAIN details, t \in DocumentTiers :
                        details[pkg][t].projects = package_stats[pkg][t]
                  /\ \A t \in DocumentTiers :
                        DOMAIN Document.projects_list[t]
                            = UNION {DOMAIN package_stats[pkg][t] :
                                        pkg \in DOMAIN package_stats}

\* A document of an incremental save that lists two packages and two
\* projects.
C13_Witness ==
    /\ results_file # <<>>
    /\ pc = "project_loop"
    /\ DocumentIsFresh
    /\ Cardinality(DOMAIN Document.analysis_results.package_details) = 2
    /\ Cardinality(DOMAIN Document.projects_list.projects_any_version) = 2
    /\ Cardinality(DOMAIN Document.projects_list.projects_exact_version) >= 1

\* C14: for every position k of the project list that is a multiple of 10,
\* whether or not the project at k has a uuid: as the loop leaves project k
\* the results written are those of package_stats after the projects 1..k
\* and, with caching enabled, cache.json holds the cache; from then on the
\* results written cover at least k projects.
C14_CheckpointEveryTen ==
    \A k \in 1..Len(all_projects) :
        (k % 10 = 0 /\ idx > k) =>
            /\ results_file # <<>>
            /\ Document.analysis_results.summary.projects_processed >= k
            /\ (idx = k + 1 /\ pc = "project_loop") =>
                  /\ results_file
                        = <<save_results(
                               build_stats_from_package_stats(
                                   package_stats, packages_lookup), k)>>
                  /\ ENABLE_CACHE => cache_file = cache

\* The least number of pages of 100 that hold n items.
CeilPages(n) ==
    CHOOSE m \in 0..n : 100 * m >= n /\ (m = 0 \/ 100 * (m - 1) < n)

\* The items a page contributes to a listing.
PageItems(resp) ==
    IF resp.json /\ resp.shape \in {"list", "items"} THEN resp.items ELSE <<>>

\* The listing under way or last ended is that of the projects.
ListingProjects == requests # <<>> /\ requests[1].target = "projects"

\* A listing has just returned after a 200 (every earlier response of the
\* listing was then a 200 too): what it returned.
ListingReturned ==
    /\ requests # <<>>
    /\ response.kind = "http"
    /\ response.status = 200
    /\ \/ pc = "classify"
       \/ pc = "project_loop" /\ ListingProjects /\ idx = 1

ListingResult == IF ListingProjects THEN all_projects ELSE components

PagingCounted == pc \in {"projects_counted", "components_counted"}

PagingUncounted == pc \in {"projects_uncounted", "components_uncounted"}

\* The pages of a listing are requested in increasing order from page 1;
\* the for loop stays within the page count and ends on it; the while loop
\* goes on only after full pages, ends on the first page with fewer than 100
\* items, and returns the pages in order.
PagingInvariant ==
    /\ \A i \in 1..Len(requests) :
          requests[i].page = i /\ requests[i].target = requests[1].target
    /\ PagingCounted =>
          /\ page_number = Len(requests) + 1
          /\ page_number <= total_pages
    /\ PagingUncounted =>
          /\ page_number = Len(requests) + 1
          /\ total_pages = 0
          /\ Len(PageItems(response)) >= 100
          /\ Len(acc) >= 100 * Len(requests)
    /\ (ListingReturned /\ Len(requests) >= 2) =>
          IF total_pages > 0
          THEN Len(requests) = total_pages
          ELSE /\ Len(PageItems(response)) < 100
               /\ Len(acc) >= 100 * (Len(requests) - 1)
               /\ ListingResult = acc \o PageItems(response)
    /\ (ListingReturned /\ Len(requests) = 1) =>
          IF response.json /\ response.header.kind = "int"
          THEN CeilPages(response.header.value) <= 1
          ELSE /\ Len(PageItems(response)) < 100
               /\ response.shape \in {"list", "items"}
                     => ListingResult = PageItems(response)

\* The step that sends the first request of a listing.
FirstRequestStep ==
    \/ pc = "get_projects"
    \/ /\ pc = "project_loop"
       /\ pc' \notin {"project_loop", "done"}
       /\ requests' # <<>>

\* The first response decides how the listing goes on: with a total count T
\* of two pages or more, the for loop over pages 2..ceil(T/100), whatever the
\* size of the page; with a total count of at most one page, no further
\* request; without usable total count, the while loop after a full page.
PagingStep ==
    (/\ FirstRequestStep
     /\ response'.kind = "http"
     /\ response'.status = 200
     /\ response'.json) =>
        IF response'.header.kind = "int"
        THEN IF CeilPages(response'.header.value) >= 2
             THEN /\ pc' \in {"projects_counted", "components_counted"}
                  /\ total_pages' = CeilPages(response'.header.value)
                  /\ page_number' = 2
             ELSE pc' \in {"project_loop", "classify"}
        ELSE IF Len(response'.items) >= 100
             THEN /\ pc' \in {"projects_uncounted", "components_uncounted"}
                  /\ page_number' = 2
             ELSE pc' \in {"project_loop", "classify"}

\* C15: without usable total-count header on the first response, the pages
\* are requested in increasing order until the first page with fewer than 100
\* items, no page is requested after it, and the result is the pages in
\* order; with a total count T, exactly the pages 1..ceil(T/100) are
\* requested, page 1 alone when T is 0, whatever the sizes of the pages.
C15_Pagination == []PagingInvariant /\ [][PagingStep]_vars

\* A component listing without total count that ended on its third page,
\* after two full pages.
C15_Witness ==
    /\ ListingReturned
    /\ ~ListingProjects
    /\ total_pages = 0
    /\ Len(requests) = 3
    /\ Len(acc) = 200
    /\ Len(components) = 201

\* With the flag off the cache in memory is empty, and a project reaches the
\* classification only after a request for its components.
CacheFlagInvariant ==
    ~ENABLE_CACHE =>
        /\ cache = EmptyDict
        /\ pc = "classify" =>
              /\ requests # <<>>
              /\ requests[1].target = project.uuid

\* With the flag off no step writes cache.json; with the flag on, the step
\* taken for a project whose uuid is a key of the cache returns the cached
\* list, sends no request and leaves cache and cache.json as they are.
CacheFlagStep ==
    /\ ~ENABLE_CACHE => cache_file' = cache_file
    /\ (/\ ENABLE_CACHE
        /\ pc = "project_loop"
        /\ idx <= Len(all_projects)
        /\ project.uuid # ""
        /\ project.uuid \in DOMAIN cache) =>
            /\ pc' = "classify"
            /\ components' = cache[project.uuid]
            /\ requests' = <<>>
            /\ cache' = cache
            /\ cache_file' = cache_file

\* C16: with the cache flag disabled the cache is never read (it stays
\* empty) and never written, and every project with a uuid is classified only
\* after a component request for it; with the flag enabled, a project whose
\* uuid is a key of the cache gets the cached list, without request and
\* without change of the cache.
C16_CacheFlag == []CacheFlagInvariant /\ [][CacheFlagStep]_vars

\* A project served from the cache read from cache.json.
C16_Witness ==
    /\ ENABLE_CACHE
    /\ pc = "classify"
    /\ requests = <<>>
    /\ project.uuid = "u1"
    /\ components = <<Comp(PkgA, V20)>>
    /\ cache = cache_file

\* C17: once both feeds are processed, every version of every Feed A row of
\* a package is one of the versions of that package's entry, also when
\* Feed A has several rows for the package.
C17_EveryRowVersionKept ==
    LookupBuilt =>
        \A i \in 1..Len(csv_packages) :
            LET name  == Strip(csv_packages[i].Package)
                fromA == parse_version(Strip(csv_packages[i].Version)).versions
            IN  name # <<>> =>
                    /\ name \in DOMAIN packages_lookup
                    /\ \A k \in 1..Len(fromA) :
                          \E m \in 1..Len(packages_lookup[name].malicious_versions) :
                              packages_lookup[name].malicious_versions[m]
                                  = fromA[k]

\* C18: with caching enabled, when the fetch of a project's components ends
\* on a page whose body is not JSON (the first page or a later one), no list
\* is stored in the cache for the project, since the list lacks that page and
\* the pages after it.
C18_OnlyCompleteListsCached ==
    (/\ ENABLE_CACHE
     /\ pc = "classify"
     /\ LastRequestIsForComponents
     /\ response.kind = "http"
     /\ response.status = 200
     /\ ~response.json) =>
        requests[1].target \notin DOMAIN cache

\* C19: for an entry without all_versions_malicious (its versions being
\* proper version strings, none empty) and a component of that name whose
\* version is not empty, an exact-version match is also a major-version
\* match, whatever the number of versions the entry lists and whether or not
\* they are written with a v.
C19_ExactImpliesMajor ==
    (/\ Classified
     /\ TheComponent.name \in DOMAIN packages_lookup
     /\ ~TheEntry.all_versions_malicious
     /\ \A k \in 1..Len(TheEntry.malicious_versions) :
           TheEntry.malicious_versions[k] # <<>>
     /\ TheComponent.version # <<>>
     /\ Hit("exact_version")) =>
        Hit("major_version")

====
